---- MODULE Spec2Model ----
(***************************************************************************)
(* OAuth sign-in (Google / Microsoft) with create-if-absent provisioning.  *)
(* Model of src/main.py, src/auth_provider.py, src/user_provisioner.py and *)
(* src/models.py.                                                          *)
(*                                                                         *)
(* Each client is a browser with its own cookie jar that sends one request *)
(* at a time.  A handler runs atomically up to each point where it yields  *)
(* (an awaited outbound call) or where another server process can touch    *)
(* the shared user table (between session.get and session.commit).         *)
(***************************************************************************)
EXTENDS Integers, Sequences, FiniteSets, TLC

\* ---------------------------------------------------------------- bounds
NumClients == 2
NumEmails == 2
NumNames == 1
NumNonces == 1
\* requests the browsers send, all together, in the concurrent specification
MaxReqs == 4
\* requests the client sends in the single-client specification
RouteReqs == 2
\* length of a configured scope list
MaxScopes == 2
\* requests the browsers send, all together, on the single event loop
LoopReqs == 3

\* ------------------------------------------------------------ value pools
EmailPool == <<"a@x", "b@x", "c@x", "d@x">>
NamePool == <<"Ann", "Bob", "Cyd", "Dan">>
NoncePool == <<"s1", "s2", "s3", "s4">>

Clients == 1..NumClients
Emails == {EmailPool[i] : i \in 1..NumEmails}
Names == {NamePool[i] : i \in 1..NumNames}
Nonces == {NoncePool[i] : i \in 1..NumNonces}

\* Python's None, as a value distinct from every string the model uses
None == "None"
\* Python truthiness of an Optional[str]: None and "" are falsy
Falsy(x) == x = None \/ x = ""

\* provider path segments a client can put in the URL; "github" is unknown
Providers == {"google", "microsoft", "github"}
\* query parameter values a client can send
Codes == {None, "", "c1"}
\* "forged" is a state value the server never issued
QueryStates == {None, "forged"} \cup Nonces
\* oauth_state cookie values a client can send
SentCookies == {None, "", "forged"} \cup Nonces
\* what a provider can put in the profile / claims
ProviderEmails == {None, ""} \cup Emails
ProviderNames == {None} \cup Names

\* ------------------------------------------------------------- user table
\* The table is a sequence of rows, so that a duplicate row is expressible.
RowsFor(s, email) == {i \in DOMAIN s : s[i].email = email}

\* a lookup that takes any row of the table for the user
session_get_any(s, email) == s # <<>>

\* session.get(User, email): primary-key lookup
session_get(s, email) == RowsFor(s, email) # {}

\* a provisioner that refreshes the name of the row it finds
provision_existing_refresh(s, email, name) ==
    [i \in DOMAIN s |-> IF s[i].email = email
                        THEN [email |-> email, name |-> name] ELSE s[i]]

\* the "if existing_user: return" branch: the table is left as it is
provision_existing(s, email, name) == s

\* a commit that ignores the duplicate-key error
session_commit_swallow(s, email, name) ==
    IF RowsFor(s, email) # {}
    THEN [ok |-> TRUE, store |-> s]
    ELSE [ok |-> TRUE, store |-> Append(s, [email |-> email, name |-> name])]

\* session.merge in place of session.add: a duplicate overwrites the row
session_commit_merge(s, email, name) ==
    IF RowsFor(s, email) # {}
    THEN [ok |-> TRUE,
          store |-> [i \in DOMAIN s |-> IF s[i].email = email
                                        THEN [email |-> email, name |-> name]
                                        ELSE s[i]]]
    ELSE [ok |-> TRUE, store |-> Append(s, [email |-> email, name |-> name])]

\* session.add without session.commit: nothing reaches the table
session_commit_lost(s, email, name) == [ok |-> TRUE, store |-> s]

\* an INSERT into a table without the primary key
session_commit_nokey(s, email, name) ==
    [ok |-> TRUE, store |-> Append(s, [email |-> email, name |-> name])]

\* session.add(new_user); session.commit(): the INSERT, under the table's
\* primary key on email.  ok = FALSE is the IntegrityError commit raises.
session_commit(s, email, name) ==
    IF RowsFor(s, email) # {}
    THEN [ok |-> FALSE, store |-> s]
    ELSE [ok |-> TRUE, store |-> Append(s, [email |-> email, name |-> name])]

\* ---------------------------------------------------------------- cookies
\* A jar is a set of cookies [name, path, value]; Set-Cookie replaces the
\* cookie with the same name and path, a deletion removes it.
SetCookie(name, value, path) ==
    [op |-> "set", name |-> name, value |-> value, path |-> path]
DeleteCookie(name, path) ==
    [op |-> "delete", name |-> name, value |-> "", path |-> path]

ApplyOne(j, o) ==
    LET rest == {k \in j : ~(k.name = o.name /\ k.path = o.path)}
    IN  IF o.op = "set"
        THEN rest \cup {[name |-> o.name, path |-> o.path, value |-> o.value]}
        ELSE rest

RECURSIVE ApplySetCookies(_, _)
ApplySetCookies(j, ops) ==
    IF ops = <<>> THEN j
    ELSE ApplySetCookies(ApplyOne(j, Head(ops)), Tail(ops))

\* request.cookies.get(name)
CookieGet(j, name) ==
    IF \E k \in j : k.name = name
    THEN (CHOOSE k \in j : k.name = name).value
    ELSE None

\* -------------------------------------------------------------- responses
NoUrl == [base |-> None, query |-> <<>>]
\* a detail is a sequence of string fragments (an f-string keeps its parts)
NoResp == [status |-> 0, cookies |-> <<>>, location |-> NoUrl, detail |-> <<>>]

\* an error response that also drops the state cookie
HttpError_clearing(code, detail) ==
    [status |-> code, location |-> NoUrl, detail |-> detail,
     cookies |-> <<[op |-> "delete", name |-> "oauth_state", value |-> "", path |-> "/"]>>]

\* raise HTTPException(status_code=..., detail=...): no redirect, no cookie
HttpError(code, detail) ==
    [status |-> code, cookies |-> <<>>, location |-> NoUrl, detail |-> detail]
\* an exception no handler catches: the framework answers 500
ServerError == HttpError(500, <<"Internal Server Error">>)

NoReq == [route |-> "none", provider |-> None, code |-> None,
          state |-> None, cookie |-> None]
NoUser == [email |-> None, name |-> None]
NoRet == [kind |-> "unset", user |-> NoUser]
RetNone == [kind |-> "None", user |-> NoUser]
RetRaised == [kind |-> "exception", user |-> NoUser]
RetResult(email, name) ==
    [kind |-> "AuthResult", user |-> [email |-> email, name |-> name]]

VARIABLES
    store,    \* the User table
    jar,      \* jar[c]: the cookies client c's browser holds
    pc,       \* pc[c]: where the handler of c's request stands
    req,      \* req[c]: c's current (or last) request
    resp,     \* resp[c]: the response to it; status 0 while in flight
    calls,    \* calls[c]: what the handler has called so far, in order
    outs,     \* outs[c]: outcomes of the provider's outbound calls, in order
    ret,      \* ret[c]: what process_callback returned
    prevOk,   \* prevOk[c]: c's previous request was a successful callback
    nreq,     \* requests sent so far
    worker,   \* worker[c]: the server process (event loop) that serves c
    during,   \* during[c]: c's request began while another client's
              \* Microsoft exchange was in flight on the same event loop
    seq,      \* the sequential provisioning driver
    par,      \* the concurrent provisioning driver
    urlt      \* the get_auth_url driver

\* the drivers of the specifications that exercise one method alone
drivers == <<seq, par, urlt>>

vars == <<store, jar, pc, req, resp, calls, outs, ret, prevOk, nreq, worker,
          during, seq, par, urlt>>

SeqIdle == [pc |-> "off", email |-> None, n1 |-> None, n2 |-> None,
            fresh |-> FALSE, raised |-> FALSE]
ParIdle == <<>>
UrlIdle == [pc |-> "off"]

TypeOK ==
    /\ pc \in [Clients -> {"idle", "g_token", "g_userinfo", "ms_exchange", "pv_insert"}]
    /\ \A i \in DOMAIN store : store[i].email \in Emails
    /\ \A c \in Clients : resp[c].status \in {0, 307, 400, 401, 500}

Init ==
    /\ store = <<>>
    /\ jar = [c \in Clients |-> {}]
    /\ pc = [c \in Clients |-> "idle"]
    /\ req = [c \in Clients |-> NoReq]
    /\ resp = [c \in Clients |-> NoResp]
    /\ calls = [c \in Clients |-> <<>>]
    /\ outs = [c \in Clients |-> <<>>]
    /\ ret = [c \in Clients |-> NoRet]
    /\ prevOk = [c \in Clients |-> FALSE]
    /\ nreq = 0
    /\ worker = [c \in Clients |-> c]      \* one server process per browser
    /\ during = [c \in Clients |-> FALSE]
    /\ seq = SeqIdle
    /\ par = ParIdle
    /\ urlt = UrlIdle

\* ------------------------------------------------------------- providers
\* a factory that falls back to Google for a name it does not know
get_auth_provider_fallback(provider_name) ==
    IF provider_name = "microsoft" THEN "MicrosoftAuth" ELSE "GoogleAuth"

\* get_auth_provider: the provider class for a path segment, or ValueError
get_auth_provider(provider_name) ==
    IF provider_name = "google" THEN "GoogleAuth"
    ELSE IF provider_name = "microsoft" THEN "MicrosoftAuth"
    ELSE "ValueError"

\* ------------------------------------------------------ authorization URL
\* A string is a sequence of atoms; " " is the atom urlencode rewrites.
RECURSIVE Join(_, _)
Join(list, sep) ==
    IF list = <<>> THEN <<>>
    ELSE IF Len(list) = 1 THEN <<Head(list)>>
    ELSE <<Head(list), sep>> \o Join(Tail(list), sep)

\* urllib.parse.quote_plus, atom by atom
quote_plus(s) ==
    [i \in DOMAIN s |-> IF s[i] = " " THEN "+" ELSE IF s[i] = "+" THEN "%2B" ELSE s[i]]
\* what the provider's server reads back from an encoded value
unquote_plus(s) ==
    [i \in DOMAIN s |-> IF s[i] = "+" THEN " " ELSE IF s[i] = "%2B" THEN "+" ELSE s[i]]

\* urlencode(params): each value through str() and quote_plus, in order
urlencode(params) ==
    [i \in DOMAIN params |-> [key |-> params[i][1], value |-> quote_plus(params[i][2])]]

\* the scopes argument of a constructor: not given (None), or a list
NoScopes == [given |-> FALSE, list |-> <<>>]
GivenScopes(list) == [given |-> TRUE, list |-> list]

\* `scopes or default`: None and the empty list are both falsy
ScopesOr(arg, default) ==
    IF arg.given /\ arg.list # <<>> THEN arg.list ELSE default

\* GoogleAuth.__init__
GoogleAuth(arg) ==
    [kind |-> "GoogleAuth", client_id |-> "GOOGLE_CLIENT_ID",
     redirect_uri |-> "GOOGLE_REDIRECT_URI",
     scopes |-> ScopesOr(arg, <<"openid", "email", "profile">>)]

\* MicrosoftAuth.__init__
MicrosoftAuth(arg) ==
    [kind |-> "MicrosoftAuth", client_id |-> "MICROSOFT_CLIENT_ID",
     redirect_uri |-> "MICROSOFT_REDIRECT_URI",
     scopes |-> ScopesOr(arg, <<"User.Read">>)]

\* a scope string joined with commas
scope_string_commas(scopes) == Join(scopes, ",")

\* " ".join(self.scopes)
scope_string(scopes) == Join(scopes, " ")

\* a parameter list that repeats the state as a nonce
google_params_nonce(self, state) ==
    << <<"client_id", <<self.client_id>> >>,
       <<"response_type", <<"code">> >>,
       <<"scope", scope_string(self.scopes)>>,
       <<"redirect_uri", <<self.redirect_uri>> >>,
       <<"state", <<state>> >>,
       <<"nonce", <<state>> >>,
       <<"access_type", <<"offline">> >> >>

\* the params dict of GoogleAuth.get_auth_url; str(None) is "None"
google_params(self, state) ==
    << <<"client_id", <<self.client_id>> >>,
       <<"response_type", <<"code">> >>,
       <<"scope", scope_string(self.scopes)>>,
       <<"redirect_uri", <<self.redirect_uri>> >>,
       <<"state", <<state>> >>,
       <<"access_type", <<"offline">> >> >>

\* GoogleAuth.get_auth_url
google_get_auth_url(self, state) ==
    [base |-> "https://accounts.google.com/o/oauth2/v2/auth",
     query |-> urlencode(google_params(self, state))]

\* MicrosoftAuth.get_auth_url: MSAL builds the URL from the three arguments
\* it is handed and the application's client_id and authority; it leaves
\* out a state that is None
microsoft_get_auth_url(self, state) ==
    [base |-> "https://login.microsoftonline.com/MICROSOFT_AUTHORITY/oauth2/v2.0/authorize",
     query |-> urlencode(
        << <<"client_id", <<self.client_id>> >>,
           <<"response_type", <<"code">> >>,
           <<"redirect_uri", <<self.redirect_uri>> >>,
           <<"scope", scope_string(self.scopes)>> >>
        \o (IF state = None THEN <<>> ELSE << <<"state", <<state>> >> >>))]

\* provider.get_auth_url(state), by the provider's class
provider_get_auth_url(self, state) ==
    IF self.kind = "GoogleAuth" THEN google_get_auth_url(self, state)
    ELSE microsoft_get_auth_url(self, state)

\* get_auth_provider(...).get_auth_url(state): the application builds its
\* providers without a scopes argument
get_auth_url(kind, state) ==
    IF kind = "GoogleAuth"
    THEN provider_get_auth_url(GoogleAuth(NoScopes), state)
    ELSE provider_get_auth_url(MicrosoftAuth(NoScopes), state)

\* the query parameters of a URL, as the receiving server parses them
HasParam(url, key) == \E i \in DOMAIN url.query : url.query[i].key = key
Param(url, key) ==
    unquote_plus(url.query[CHOOSE i \in DOMAIN url.query : url.query[i].key = key].value)

\* outcomes of one outbound HTTP call of GoogleAuth
HttpOutcomes == {"ok", "non_success", "network_error"}
\* outcomes of MSAL's acquire_token_by_authorization_code
MsOutcomes == {"raise", "error", "claims", "no_claims"}

\* a token step that goes on to userinfo whatever the status
google_after_token_unchecked(out) ==
    IF out = "network_error" THEN "raise" ELSE "userinfo"

\* GoogleAuth.process_callback after `await client.post(token_url)`:
\* what the method does next
google_after_token(out) ==
    IF out = "network_error" THEN "raise"        \* nothing catches it
    ELSE IF out = "non_success" THEN "return_none"
    ELSE "userinfo"

\* GoogleAuth.process_callback after `await client.get(userinfo_url)`
google_after_userinfo(out, email, name) ==
    IF out = "network_error" THEN RetRaised
    ELSE IF out = "non_success" THEN RetNone
    ELSE RetResult(email, name)

\* MicrosoftAuth.process_callback once the executor call has ended; the
\* claims are read only past the two early returns
microsoft_reads_claims(out) == out \notin {"raise", "error"}

\* an exchange that does not look for the "error" key
microsoft_process_callback_noerr(out, email, name) ==
    IF out = "raise" THEN RetNone
    ELSE IF out = "no_claims" THEN RetResult(None, None)
    ELSE RetResult(email, name)

\* an exchange that returns None when the result holds no claims
microsoft_process_callback_strict(out, email, name) ==
    IF out \in {"raise", "error", "no_claims"} THEN RetNone
    ELSE RetResult(email, name)

microsoft_process_callback(out, email, name) ==
    IF out = "raise" THEN RetNone                \* except Exception
    ELSE IF out = "error" THEN RetNone           \* "error" in result
    ELSE IF out = "no_claims" THEN RetResult(None, None)   \* claims = {}
    ELSE RetResult(email, name)

\* ----------------------------------------------------------- route layer
\* a state check that compares without requiring the cookie
state_invalid_compare_only(stored_state, state) == stored_state # state

\* auth_callback's first check
state_invalid(stored_state, state) == Falsy(stored_state) \/ stored_state # state

\* auth_callback's check of the code parameter
code_missing(code) == Falsy(code)

\* an email check that lets the empty string through
email_missing_none_only(user_email) == user_email = None

\* auth_callback's check of the provider's email
email_missing(user_email) == Falsy(user_email)

\* the checks with the code parameter looked at first
auth_precheck_code_first(provider, code, state, ck) ==
    IF code_missing(code) THEN <<"Authorization code missing">>
    ELSE IF state_invalid(ck, state) THEN <<"Invalid state parameter">>
    ELSE IF get_auth_provider(provider) = "ValueError"
    THEN <<"Unknown provider: ", provider>>
    ELSE <<>>

\* auth_callback before process_callback: the detail of the first check
\* that fails (state nonce, provider, code), or <<>> when all pass
auth_precheck(provider, code, state, ck) ==
    IF state_invalid(ck, state) THEN <<"Invalid state parameter">>
    ELSE IF get_auth_provider(provider) = "ValueError"
    THEN <<"Unknown provider: ", provider>>
    ELSE IF code_missing(code) THEN <<"Authorization code missing">>
    ELSE <<>>

\* auth_result.user.name or ""
NameOrEmpty(name) == IF Falsy(name) THEN "" ELSE name

login_cookies(state) == <<SetCookie("oauth_state", state, "/")>>

auth_cookies(user_email, user_name) ==
    << SetCookie("user_email", user_email, "/"),
       SetCookie("user_name", user_name, "/"),
       DeleteCookie("oauth_state", "/") >>

\* a logout that forgets the email cookie
logout_cookies_name_only == << DeleteCookie("user_name", "/") >>

logout_cookies ==
    << DeleteCookie("user_name", "/"), DeleteCookie("user_email", "/") >>

Redirect(url, cookies) ==
    [status |-> 307, cookies |-> cookies, location |-> url, detail |-> <<>>]
Home == [base |-> "/", query |-> <<>>]

AuthOk(c) == req[c].route = "auth" /\ resp[c].status = 307

\* a Microsoft exchange called directly on the event loop
blocks_loop_direct(p) == p \in {"pv_insert", "ms_exchange"}

\* whether a handler standing at p holds its event loop.  The awaited httpx
\* calls and the MSAL call handed to run_in_executor give the loop back;
\* provision_user is synchronous and keeps it from its lookup to its commit.
blocks_loop(p) == p = "pv_insert"

\* no other handler of c's server process holds the event loop
LoopFree(c) ==
    \A d \in Clients \ {c} : worker[d] = worker[c] => ~blocks_loop(pc[d])

\* the handler of c's request returns r; the browser applies its cookies
Finish(c, r) ==
    /\ resp' = [resp EXCEPT ![c] = r]
    /\ jar' = [jar EXCEPT ![c] = ApplySetCookies(jar[c], r.cookies)]
    /\ pc' = [pc EXCEPT ![c] = "idle"]

\* the handler of c's request yields at position p
Yield(c, p) ==
    /\ resp' = [resp EXCEPT ![c] = NoResp]
    /\ pc' = [pc EXCEPT ![c] = p]
    /\ UNCHANGED jar

\* GET /login/{provider}
login(c, provider, nonce) ==
    /\ pc[c] = "idle"
    /\ LoopFree(c)
    /\ req' = [req EXCEPT ![c] = [NoReq EXCEPT !.route = "login", !.provider = provider]]
    /\ prevOk' = [prevOk EXCEPT ![c] = AuthOk(c)]
    /\ calls' = [calls EXCEPT ![c] = <<>>]
    /\ outs' = [outs EXCEPT ![c] = <<>>]
    /\ ret' = [ret EXCEPT ![c] = NoRet]
    /\ LET p == get_auth_provider(provider)
       IN  IF p = "ValueError"
           THEN Finish(c, HttpError(400, <<"Unknown provider: ", provider>>))
           ELSE Finish(c, Redirect(get_auth_url(p, nonce), login_cookies(nonce)))
    /\ UNCHANGED <<store, worker, drivers>>

\* GET /logout
logout(c) ==
    /\ pc[c] = "idle"
    /\ LoopFree(c)
    /\ req' = [req EXCEPT ![c] = [NoReq EXCEPT !.route = "logout"]]
    /\ prevOk' = [prevOk EXCEPT ![c] = AuthOk(c)]
    /\ calls' = [calls EXCEPT ![c] = <<>>]
    /\ outs' = [outs EXCEPT ![c] = <<>>]
    /\ ret' = [ret EXCEPT ![c] = NoRet]
    /\ Finish(c, Redirect(Home, logout_cookies))
    /\ UNCHANGED <<store, worker, drivers>>

\* auth_callback from the return of process_callback (with r, after the
\* calls cl) to the response or to the INSERT of provision_user
auth_continue(c, r, cl) ==
    /\ ret' = [ret EXCEPT ![c] = r]
    /\ IF r.kind = "exception"
       THEN /\ Finish(c, ServerError)
            /\ calls' = [calls EXCEPT ![c] = cl]
            /\ UNCHANGED store
       ELSE IF r.kind = "None"
       THEN /\ Finish(c, HttpError(401, <<"Authentication failed">>))
            /\ calls' = [calls EXCEPT ![c] = cl]
            /\ UNCHANGED store
       ELSE IF email_missing(r.user.email)
       THEN /\ Finish(c, HttpError(400, <<"Email not provided by the provider.">>))
            /\ calls' = [calls EXCEPT ![c] = cl]
            /\ UNCHANGED store
       ELSE /\ calls' = [calls EXCEPT ![c] = Append(cl, "provision_user")]
            /\ IF session_get(store, r.user.email)
               THEN /\ store' = provision_existing(store, r.user.email,
                                                   NameOrEmpty(r.user.name))
                    /\ Finish(c, Redirect(Home,
                          auth_cookies(r.user.email, NameOrEmpty(r.user.name))))
               ELSE /\ Yield(c, "pv_insert")
                    /\ UNCHANGED store

\* GET /auth/{provider}?code&state, with the oauth_state cookie ck, up to
\* the first await
auth_callback(c, provider, code, state, ck) ==
    /\ pc[c] = "idle"
    /\ LoopFree(c)
    /\ req' = [req EXCEPT ![c] = [route |-> "auth", provider |-> provider,
                                  code |-> code, state |-> state, cookie |-> ck]]
    /\ prevOk' = [prevOk EXCEPT ![c] = AuthOk(c)]
    /\ outs' = [outs EXCEPT ![c] = <<>>]
    /\ ret' = [ret EXCEPT ![c] = NoRet]
    /\ LET p == get_auth_provider(provider)
           check == auth_precheck(provider, code, state, ck)
       IN  IF check # <<>>
           THEN /\ Finish(c, HttpError(400, check))
                /\ calls' = [calls EXCEPT ![c] = <<>>]
           ELSE IF p = "GoogleAuth"
           THEN /\ Yield(c, "g_token")
                /\ calls' = [calls EXCEPT ![c] = <<"process_callback", "token_post">>]
           ELSE /\ Yield(c, "ms_exchange")
                /\ calls' = [calls EXCEPT ![c] = <<"process_callback", "acquire_token">>]
    /\ UNCHANGED <<store, worker, drivers>>

\* the token POST of GoogleAuth.process_callback ends with outcome out
google_token(c, out) ==
    /\ pc[c] = "g_token"
    /\ LoopFree(c)
    /\ outs' = [outs EXCEPT ![c] = Append(outs[c], out)]
    /\ LET next == google_after_token(out)
       IN  IF next = "userinfo"
           THEN /\ Yield(c, "g_userinfo")
                /\ calls' = [calls EXCEPT ![c] = Append(calls[c], "userinfo_get")]
                /\ UNCHANGED <<store, ret>>
           ELSE auth_continue(c, IF next = "raise" THEN RetRaised ELSE RetNone, calls[c])
    /\ UNCHANGED <<req, prevOk, worker, drivers>>

\* the userinfo GET of GoogleAuth.process_callback ends with outcome out
google_userinfo(c, out, email, name) ==
    /\ pc[c] = "g_userinfo"
    /\ LoopFree(c)
    /\ outs' = [outs EXCEPT ![c] = Append(outs[c], out)]
    /\ auth_continue(c, google_after_userinfo(out, email, name), calls[c])
    /\ UNCHANGED <<req, prevOk, worker, drivers>>

\* MSAL's exchange, run in the executor, ends with outcome out
microsoft_exchange(c, out, email, name) ==
    /\ pc[c] = "ms_exchange"
    /\ LoopFree(c)
    /\ outs' = [outs EXCEPT ![c] = Append(outs[c], out)]
    /\ auth_continue(c, microsoft_process_callback(out, email, name),
                     IF microsoft_reads_claims(out)
                     THEN Append(calls[c], "id_token_claims") ELSE calls[c])
    /\ UNCHANGED <<req, prevOk, worker, drivers>>

\* provision_user's session.add + session.commit, then the response
provision_commit(c) ==
    /\ pc[c] = "pv_insert"
    /\ LoopFree(c)
    /\ LET r == session_commit(store, ret[c].user.email, NameOrEmpty(ret[c].user.name))
       IN  /\ store' = r.store
           /\ IF r.ok
              THEN Finish(c, Redirect(Home,
                      auth_cookies(ret[c].user.email, NameOrEmpty(ret[c].user.name))))
              ELSE Finish(c, ServerError)    \* IntegrityError, not caught
    /\ UNCHANGED <<req, prevOk, calls, outs, ret, worker, drivers>>

\* --------------------------------------------------------- specifications
\* the steps of a request in flight, whoever sent it
Progress(c) ==
    \/ \E out \in HttpOutcomes : google_token(c, out)
    \/ \E out \in HttpOutcomes, email \in ProviderEmails, name \in ProviderNames :
          google_userinfo(c, out, email, name)
    \/ \E out \in MsOutcomes, email \in ProviderEmails, name \in ProviderNames :
          microsoft_exchange(c, out, email, name)
    \/ provision_commit(c)

\* a browser following the flow: the callback carries the code the provider
\* issued, the state the provider echoes and the cookie /login set
BrowserAuth(c) ==
    \E provider \in Providers :
        auth_callback(c, provider, "c1", CookieGet(jar[c], "oauth_state"),
                      CookieGet(jar[c], "oauth_state"))

\* a client that sends whatever it likes
AnyAuth(c) ==
    \E provider \in Providers, code \in Codes, state \in QueryStates,
       ck \in SentCookies :
        auth_callback(c, provider, code, state, ck)

Login(c) == \E provider \in Providers, nonce \in Nonces : login(c, provider, nonce)

\* one more request, within a budget of max
Count(max) ==
    /\ nreq < max
    /\ nreq' = nreq + 1
    /\ UNCHANGED during

\* concurrent browsers against one server and one user table
Next ==
    \E c \in Clients :
        \/ Count(MaxReqs) /\ Login(c)
        \/ Count(MaxReqs) /\ BrowserAuth(c)
        \/ Count(MaxReqs) /\ logout(c)
        \/ Progress(c) /\ UNCHANGED <<nreq, during>>

Spec == Init /\ [][Next]_vars

\* every browser served by one process: a single event loop
LoopInit ==
    /\ store = <<>>
    /\ jar = [c \in Clients |-> {}]
    /\ pc = [c \in Clients |-> "idle"]
    /\ req = [c \in Clients |-> NoReq]
    /\ resp = [c \in Clients |-> NoResp]
    /\ calls = [c \in Clients |-> <<>>]
    /\ outs = [c \in Clients |-> <<>>]
    /\ ret = [c \in Clients |-> NoRet]
    /\ prevOk = [c \in Clients |-> FALSE]
    /\ nreq = 0
    /\ worker = [c \in Clients |-> 1]
    /\ during = [c \in Clients |-> FALSE]
    /\ seq = SeqIdle
    /\ par = ParIdle
    /\ urlt = UrlIdle

\* a Microsoft exchange of another client is in flight on c's event loop
ExchangeInFlight(c) ==
    \E d \in Clients \ {c} : worker[d] = worker[c] /\ pc[d] = "ms_exchange"

\* one more request, by c, noting whether it begins during such an exchange
CountMark(c) ==
    /\ nreq < LoopReqs
    /\ nreq' = nreq + 1
    /\ during' = [during EXCEPT ![c] = ExchangeInFlight(c)]

LoopNext ==
    \E c \in Clients :
        \/ CountMark(c) /\ Login(c)
        \/ CountMark(c) /\ BrowserAuth(c)
        \/ CountMark(c) /\ logout(c)
        \/ Progress(c) /\ UNCHANGED <<nreq, during>>

SpecLoop == LoopInit /\ [][LoopNext]_vars

\* one client sending arbitrary requests, one after the other
RouteNext ==
    \/ Count(RouteReqs) /\ Login(1)
    \/ Count(RouteReqs) /\ AnyAuth(1)
    \/ Count(RouteReqs) /\ logout(1)
    \/ Progress(1) /\ UNCHANGED <<nreq, during>>

SpecRoute == Init /\ [][RouteNext]_vars

\* ------------------------------------------- provision_user, sequentially
\* names provision_user can be handed: the route passes `name or ""`
StoredNames == {""} \cup Names
Rows == [email : Emails, name : StoredNames]
\* every table the primary key allows
Tables ==
    {s \in UNION {[1..n -> Rows] : n \in 0..NumEmails} :
        \A i, j \in DOMAIN s : s[i].email = s[j].email => i = j}

\* one caller runs provision_user(email, n1) and then provision_user(email, n2)
SeqInit ==
    /\ store \in Tables
    /\ \E e \in Emails, n1 \in StoredNames, n2 \in StoredNames :
          seq = [pc |-> "call1", email |-> e, n1 |-> n1, n2 |-> n2,
                 fresh |-> ~session_get(store, e), raised |-> FALSE]
    /\ jar = [c \in Clients |-> {}]
    /\ pc = [c \in Clients |-> "idle"]
    /\ req = [c \in Clients |-> NoReq]
    /\ resp = [c \in Clients |-> NoResp]
    /\ calls = [c \in Clients |-> <<>>]
    /\ outs = [c \in Clients |-> <<>>]
    /\ ret = [c \in Clients |-> NoRet]
    /\ prevOk = [c \in Clients |-> FALSE]
    /\ nreq = 0
    /\ worker = [c \in Clients |-> c]
    /\ during = [c \in Clients |-> FALSE]
    /\ par = ParIdle
    /\ urlt = UrlIdle

SeqName == IF seq.pc \in {"call1", "insert1"} THEN seq.n1 ELSE seq.n2
SeqAfter == IF seq.pc \in {"call1", "insert1"} THEN "call2" ELSE "done"

\* provision_user up to the lookup: return if the row exists
seq_get ==
    /\ seq.pc \in {"call1", "call2"}
    /\ IF session_get(store, seq.email)
       THEN /\ store' = provision_existing(store, seq.email, SeqName)
            /\ seq' = [seq EXCEPT !.pc = SeqAfter]
       ELSE /\ seq' = [seq EXCEPT !.pc = IF seq.pc = "call1" THEN "insert1" ELSE "insert2"]
            /\ UNCHANGED store
    /\ UNCHANGED <<jar, pc, req, resp, calls, outs, ret, prevOk, nreq, worker,
                   during, par, urlt>>

\* provision_user's add and commit
seq_commit ==
    /\ seq.pc \in {"insert1", "insert2"}
    /\ LET r == session_commit(store, seq.email, SeqName)
       IN  /\ store' = r.store
           /\ seq' = [seq EXCEPT !.pc = SeqAfter, !.raised = @ \/ ~r.ok]
    /\ UNCHANGED <<jar, pc, req, resp, calls, outs, ret, prevOk, nreq, worker,
                   during, par, urlt>>

SeqNext == seq_get \/ seq_commit

SpecSeq == SeqInit /\ [][SeqNext]_vars

\* ------------------------------------------- provision_user, concurrently
\* two callers, each running provision_user(email, name) once; their steps
\* interleave at the table
Callers == {1, 2}

ParInit ==
    /\ store \in Tables
    /\ \E e \in [Callers -> Emails], n \in [Callers -> StoredNames] :
          par = [p \in Callers |->
                    [pc |-> "call", email |-> e[p], name |-> n[p],
                     fresh |-> ~session_get(store, e[p]), raised |-> FALSE,
                     before |-> Len(store)]]
    /\ jar = [c \in Clients |-> {}]
    /\ pc = [c \in Clients |-> "idle"]
    /\ req = [c \in Clients |-> NoReq]
    /\ resp = [c \in Clients |-> NoResp]
    /\ calls = [c \in Clients |-> <<>>]
    /\ outs = [c \in Clients |-> <<>>]
    /\ ret = [c \in Clients |-> NoRet]
    /\ prevOk = [c \in Clients |-> FALSE]
    /\ nreq = 0
    /\ worker = [c \in Clients |-> c]
    /\ during = [c \in Clients |-> FALSE]
    /\ seq = SeqIdle
    /\ urlt = UrlIdle

\* provision_user up to the lookup: return if the row exists
par_get(p) ==
    /\ par[p].pc = "call"
    /\ IF session_get(store, par[p].email)
       THEN /\ store' = provision_existing(store, par[p].email, par[p].name)
            /\ par' = [par EXCEPT ![p].pc = "done"]
       ELSE /\ par' = [par EXCEPT ![p].pc = "insert"]
            /\ UNCHANGED store
    /\ UNCHANGED <<jar, pc, req, resp, calls, outs, ret, prevOk, nreq, worker,
                   during, seq, urlt>>

\* provision_user's add and commit
par_commit(p) ==
    /\ par[p].pc = "insert"
    /\ LET r == session_commit(store, par[p].email, par[p].name)
       IN  /\ store' = r.store
           /\ par' = [par EXCEPT ![p].pc = "done", ![p].raised = ~r.ok]
    /\ UNCHANGED <<jar, pc, req, resp, calls, outs, ret, prevOk, nreq, worker,
                   during, seq, urlt>>

ParNext == \E p \in Callers : par_get(p) \/ par_commit(p)

SpecPar == ParInit /\ [][ParNext]_vars

\* --------------------------------------------------- get_auth_url alone
ScopePool == {"openid", "email", "User.Read"}
ScopeArgs ==
    {NoScopes} \cup
    {GivenScopes(l) : l \in UNION {[1..n -> ScopePool] : n \in 0..MaxScopes}}
\* state arguments: absent, a nonce of /login, or any other string
UrlStates == {None, "forged"} \cup Nonces

\* one provider instance, asked for its URL with s1 and then with s2
UrlInit ==
    /\ \E kind \in {"GoogleAuth", "MicrosoftAuth"}, arg \in ScopeArgs,
          s1 \in UrlStates, s2 \in UrlStates :
          urlt = [pc |-> "call1", arg |-> arg,
                  self |-> IF kind = "GoogleAuth" THEN GoogleAuth(arg)
                           ELSE MicrosoftAuth(arg),
                  s1 |-> s1, s2 |-> s2, u1 |-> NoUrl, u2 |-> NoUrl]
    /\ store = <<>>
    /\ jar = [c \in Clients |-> {}]
    /\ pc = [c \in Clients |-> "idle"]
    /\ req = [c \in Clients |-> NoReq]
    /\ resp = [c \in Clients |-> NoResp]
    /\ calls = [c \in Clients |-> <<>>]
    /\ outs = [c \in Clients |-> <<>>]
    /\ ret = [c \in Clients |-> NoRet]
    /\ prevOk = [c \in Clients |-> FALSE]
    /\ nreq = 0
    /\ worker = [c \in Clients |-> c]
    /\ during = [c \in Clients |-> FALSE]
    /\ seq = SeqIdle
    /\ par = ParIdle

url_call1 ==
    /\ urlt.pc = "call1"
    /\ urlt' = [urlt EXCEPT !.pc = "call2",
                            !.u1 = provider_get_auth_url(urlt.self, urlt.s1)]
    /\ UNCHANGED <<store, jar, pc, req, resp, calls, outs, ret, prevOk, nreq,
                   worker, during, seq, par>>

url_call2 ==
    /\ urlt.pc = "call2"
    /\ urlt' = [urlt EXCEPT !.pc = "done",
                            !.u2 = provider_get_auth_url(urlt.self, urlt.s2)]
    /\ UNCHANGED <<store, jar, pc, req, resp, calls, outs, ret, prevOk, nreq,
                   worker, during, seq, par>>

UrlNext == url_call1 \/ url_call2

SpecUrl == UrlInit /\ [][UrlNext]_vars

\* ------------------------------------------------------------------ C1

\* C1: from a table with no row for e, provision_user(e, n1) followed by
\* provision_user(e, n2) with n1 # n2 leaves exactly one row for e, and that
\* row carries n1; neither call raises.
C1_FirstNameKept ==
    (seq.pc = "done" /\ seq.fresh /\ seq.n1 # seq.n2) =>
        /\ Cardinality(RowsFor(store, seq.email)) = 1
        /\ \A i \in RowsFor(store, seq.email) : store[i].name = seq.n1
        /\ ~seq.raised

C1_Witness ==
    /\ seq.pc = "done" /\ seq.fresh /\ seq.n1 # seq.n2
    /\ \E i \in DOMAIN store : store[i] = [email |-> seq.email, name |-> seq.n1]

\* ------------------------------------------------------- C2 .. C10
\* c's request has been answered
Done(c) == pc[c] = "idle" /\ resp[c].status # 0
AuthDone(c) == Done(c) /\ req[c].route = "auth"
Called(c, what) == \E i \in DOMAIN calls[c] : calls[c][i] = what
\* cookie names a response sets, and those it deletes
SetNames(r) == {r.cookies[i].name : i \in {k \in DOMAIN r.cookies : r.cookies[k].op = "set"}}
DeletedNames(r) ==
    {r.cookies[i].name : i \in {k \in DOMAIN r.cookies : r.cookies[k].op = "delete"}}
JarNames(c) == {k.name : k \in jar[c]}

\* C2: in every reachable state of concurrent browsers, callbacks racing on
\* the same first login included, the table holds at most one row per email.
C2_OneRowPerEmail ==
    \A i, j \in DOMAIN store : store[i].email = store[j].email => i = j

\* two callbacks for the same new email raced: one inserted, one was refused
C2_Witness ==
    \E c, d \in Clients :
        /\ c # d
        /\ AuthDone(c) /\ resp[c].status = 500 /\ Called(c, "provision_user")
        /\ AuthDone(d) /\ resp[d].status = 307
        /\ ret[c].user.email = ret[d].user.email
        /\ Cardinality(RowsFor(store, ret[c].user.email)) = 1

\* C3: a callback whose oauth_state cookie is missing or empty or differs
\* from the query state, or whose code is missing or empty, is answered 400
\* and no provider call is made for it.
C3_BadStateOrCode ==
    \A c \in Clients :
        ( /\ req[c].route = "auth"
          /\ \/ Falsy(req[c].cookie)
             \/ req[c].cookie # req[c].state
             \/ Falsy(req[c].code) ) =>
        /\ Done(c) /\ resp[c].status = 400
        /\ calls[c] = <<>> /\ outs[c] = <<>> /\ ret[c] = NoRet

\* /auth/google?code=C&state=S with no oauth_state cookie
C3_Witness ==
    \E c \in Clients :
        /\ AuthDone(c) /\ req[c].provider = "google" /\ req[c].code = "c1"
        /\ req[c].state \in Nonces /\ req[c].cookie = None
        /\ resp[c].status = 400 /\ calls[c] = <<>>

\* C4: a callback past the state and code checks whose process_callback
\* yields nothing (Microsoft's result holds "error", Google's token or
\* userinfo call is non-success) is answered 401, provision_user is not
\* called and no identity cookie is set.
C4_AbsentResult ==
    \A c \in Clients :
        ( /\ req[c].route = "auth"
          /\ \/ ret[c].kind = "None"
             \/ \E i \in DOMAIN outs[c] : outs[c][i] \in {"error", "non_success"} ) =>
        /\ Done(c) /\ resp[c].status = 401
        /\ ~Called(c, "provision_user")
        /\ SetNames(resp[c]) = {}

\* /auth/microsoft with a matching state cookie and a result holding "error"
C4_Witness ==
    \E c \in Clients :
        /\ AuthDone(c) /\ req[c].provider = "microsoft"
        /\ req[c].cookie = req[c].state
        /\ outs[c] = <<"error">> /\ resp[c].status = 401

\* C5: a successful callback sets exactly user_email and user_name and clears
\* oauth_state; /logout clears user_email and user_name; after a successful
\* callback followed by /logout the browser holds none of the three cookies.
C5_CookieLifecycle ==
    \A c \in Clients :
        /\ (AuthDone(c) /\ resp[c].status = 307) =>
              /\ SetNames(resp[c]) = {"user_email", "user_name"}
              /\ DeletedNames(resp[c]) = {"oauth_state"}
              /\ Len(resp[c].cookies) = 3
              /\ JarNames(c) = {"user_email", "user_name"}
        /\ (Done(c) /\ req[c].route = "logout") =>
              /\ resp[c].status = 307
              /\ JarNames(c) \cap {"user_email", "user_name"} = {}
              /\ (prevOk[c] => jar[c] = {})

C5_Witness ==
    \E c \in Clients :
        Done(c) /\ req[c].route = "logout" /\ prevOk[c] /\ jar[c] = {}

\* C6: process_callback returns None on every failure of the exchange (a
\* network error, a non-success status, a provider-reported error, an SDK
\* exception), so the route answers 401.
C6_FailureIsAbsent ==
    \A c \in Clients :
        ( /\ AuthDone(c)
          /\ \E i \in DOMAIN outs[c] :
                outs[c][i] \in {"network_error", "non_success", "error", "raise"} ) =>
        /\ ret[c].kind = "None"
        /\ resp[c].status = 401

\* C7: when the token exchange reports failure, process_callback returns
\* None without the follow-up step: no userinfo GET after a non-success
\* token POST, no read of id_token_claims after an exception or an "error".
C7_NoFollowUp ==
    \A c \in Clients :
        ( /\ req[c].route = "auth" /\ outs[c] # <<>>
          /\ \/ req[c].provider = "google" /\ outs[c][1] = "non_success"
             \/ req[c].provider = "microsoft" /\ outs[c][1] \in {"raise", "error"} ) =>
        /\ ret[c].kind = "None"
        /\ ~Called(c, "userinfo_get")
        /\ ~Called(c, "id_token_claims")
        /\ Len(outs[c]) = 1

C7_Witness ==
    \E c \in Clients :
        /\ req[c].provider = "google" /\ outs[c] = <<"non_success">>
        /\ calls[c] = <<"process_callback", "token_post">>
        /\ ret[c].kind = "None"

C9_MissingEmail ==
    \A c \in Clients :
        (req[c].route = "auth" /\ ret[c].kind = "AuthResult" /\ Falsy(ret[c].user.email)) =>
            /\ Done(c) /\ resp[c].status = 400
            /\ ~Called(c, "provision_user")
            /\ SetNames(resp[c]) = {} /\ DeletedNames(resp[c]) = {}
            /\ \A i \in DOMAIN store : ~Falsy(store[i].email)

C9_Witness ==
    \E c \in Clients :
        /\ AuthDone(c) /\ req[c].provider = "google" /\ outs[c] = <<"ok", "ok">>
        /\ ret[c].kind = "AuthResult" /\ ret[c].user.email = ""
        /\ resp[c].status = 400
        /\ CookieGet(jar[c], "oauth_state") # None

\* C10: for a provider name other than google and microsoft, /login answers
\* 400 with no oauth_state cookie and no redirect, and /auth answers 400 with
\* no provider call and no provisioning, whatever the cookies and parameters.
C10_UnknownProvider ==
    \A c \in Clients :
        (req[c].route \in {"login", "auth"} /\ req[c].provider \notin {"google", "microsoft"}) =>
            /\ Done(c) /\ resp[c].status = 400
            /\ resp[c].cookies = <<>> /\ resp[c].location = NoUrl
            /\ calls[c] = <<>> /\ outs[c] = <<>>

\* an unknown provider with a valid state pair and a code
C10_Witness ==
    \E c \in Clients :
        /\ AuthDone(c) /\ req[c].provider = "github" /\ req[c].code = "c1"
        /\ req[c].cookie = req[c].state /\ req[c].state \in Nonces
        /\ resp[c].status = 400

\* ------------------------------------------------------- C11 .. C19

\* C11: for two distinct emails not yet in the table, provision_user(e1, n1)
\* and provision_user(e2, n2), in either order or interleaved, end with one
\* row per email, each with the name passed for it, and two rows more than
\* before; neither call raises.
C11_TwoEmailsTwoRows ==
    ( /\ par # ParIdle
      /\ \A p \in Callers : par[p].pc = "done" /\ par[p].fresh
      /\ par[1].email # par[2].email ) =>
    /\ \A p \in Callers :
          /\ Cardinality(RowsFor(store, par[p].email)) = 1
          /\ \A i \in RowsFor(store, par[p].email) : store[i].name = par[p].name
          /\ ~par[p].raised
    /\ Len(store) = par[1].before + 2

C11_Witness ==
    /\ par # ParIdle
    /\ \A p \in Callers : par[p].pc = "done" /\ par[p].fresh
    /\ par[1].email # par[2].email
    /\ Len(store) = par[1].before + 2

\* the query of a URL without its state parameter
NonState(url) == SelectSeq(url.query, LAMBDA e : e.key # "state")

\* C12: for one provider instance and two state values s1 # s2, the URLs of
\* get_auth_url(s1) and get_auth_url(s2) have the same base and the same
\* query parameters apart from `state`, and `state`, where present, carries
\* the value passed.
C12_OnlyStateDiffers ==
    (urlt.pc = "done" /\ urlt.s1 # urlt.s2) =>
        /\ urlt.u1.base = urlt.u2.base
        /\ NonState(urlt.u1) = NonState(urlt.u2)
        /\ HasParam(urlt.u1, "state") => Param(urlt.u1, "state") = <<urlt.s1>>
        /\ HasParam(urlt.u2, "state") => Param(urlt.u2, "state") = <<urlt.s2>>

C12_Witness ==
    /\ urlt.pc = "done" /\ urlt.s1 # urlt.s2
    /\ urlt.self.kind = "GoogleAuth"
    /\ Param(urlt.u1, "state") # Param(urlt.u2, "state")
    /\ NonState(urlt.u1) = NonState(urlt.u2)

\* C13: for every GoogleAuth instance and every state, absent included, the
\* URL carries access_type=offline and a scope parameter that reads as the
\* space-joined scope list: the configured list, or openid email profile
\* when no scope is configured (None or an empty list).
C13_GoogleScopeAndAccess ==
    (urlt.pc \in {"call2", "done"} /\ urlt.self.kind = "GoogleAuth") =>
        /\ HasParam(urlt.u1, "access_type")
        /\ Param(urlt.u1, "access_type") = <<"offline">>
        /\ HasParam(urlt.u1, "scope")
        /\ Param(urlt.u1, "scope") =
              Join(IF urlt.arg.given /\ urlt.arg.list # <<>> THEN urlt.arg.list
                   ELSE <<"openid", "email", "profile">>, " ")
        /\ urlt.u1.base = "https://accounts.google.com/o/oauth2/v2/auth"

C13_Witness ==
    /\ urlt.pc = "call2" /\ urlt.self.kind = "GoogleAuth"
    /\ urlt.s1 = None
    /\ urlt.arg = GivenScopes(<<"email", "User.Read">>)
    /\ Param(urlt.u1, "scope") = <<"email", " ", "User.Read">>

\* C14: two callbacks for the same new email can both pass the lookup before
\* either commits; then the commit that comes first inserts the row and is
\* answered with the redirect, and a commit that finds the row already there
\* fails with the duplicate-key error: 500, no cookie, table unchanged.
C14_RaceLoserFails ==
    [][\A c \in Clients :
          (pc[c] = "pv_insert" /\ pc'[c] = "idle") =>
             IF session_get(store, ret[c].user.email)
             THEN /\ resp'[c].status = 500 /\ resp'[c].cookies = <<>>
                  /\ store' = store /\ jar'[c] = jar[c]
             ELSE /\ resp'[c].status = 307
                  /\ SetNames(resp'[c]) = {"user_email", "user_name"}
                  /\ Len(store') = Len(store) + 1
                  /\ Cardinality(RowsFor(store', ret[c].user.email)) = 1]_vars

\* both passed the lookup; one got the redirect, the other the error
C14_Witness ==
    \E c, d \in Clients :
        /\ c # d /\ worker[c] # worker[d]
        /\ AuthDone(c) /\ resp[c] = ServerError
        /\ calls[c][Len(calls[c])] = "provision_user"
        /\ CookieGet(jar[c], "user_email") = None
        /\ AuthDone(d) /\ resp[d].status = 307
        /\ ret[c].user.email = ret[d].user.email
        /\ \E i \in DOMAIN store :
              store[i] = [email |-> ret[d].user.email,
                          name |-> NameOrEmpty(ret[d].user.name)]

\* C15: a row, once in the table, stays there with the same name: no step of
\* /login, /auth or /logout, successful or failing, updates or deletes it.
C15_RowsNeverChange ==
    [][\A i \in DOMAIN store : i \in DOMAIN store' /\ store'[i] = store[i]]_vars

\* a later successful login of the same email under another name
C15_Witness ==
    \E c \in Clients :
        /\ AuthDone(c) /\ resp[c].status = 307
        /\ \E i \in DOMAIN store :
              /\ store[i].email = ret[c].user.email
              /\ store[i].name # NameOrEmpty(ret[c].user.name)

\* C16: a callback goes through state validation, provider selection, the
\* code check, process_callback, the email check, provision_user and the
\* identity cookies in this order, each only after the one before passed.
C16_StepOrder ==
    \A c \in Clients :
        req[c].route = "auth" =>
        LET badState == Falsy(req[c].cookie) \/ req[c].cookie # req[c].state
            unknown == req[c].provider \notin {"google", "microsoft"}
            noCode == Falsy(req[c].code)
            n == Len(calls[c])
        IN  /\ badState => resp[c].detail = <<"Invalid state parameter">>
            /\ (~badState /\ unknown) =>
                  resp[c].detail = <<"Unknown provider: ", req[c].provider>>
            /\ (~badState /\ ~unknown /\ noCode) =>
                  resp[c].detail = <<"Authorization code missing">>
            /\ n > 0 => (~badState /\ ~unknown /\ ~noCode /\ calls[c][1] = "process_callback")
            /\ ret[c].kind # "unset" => n > 0
            /\ Called(c, "provision_user") =>
                  /\ calls[c][n] = "provision_user" /\ n > 1
                  /\ ret[c].kind = "AuthResult" /\ ~Falsy(ret[c].user.email)
            /\ SetNames(resp[c]) # {} =>
                  /\ Called(c, "provision_user") /\ pc[c] = "idle"
                  /\ session_get(store, ret[c].user.email)

C16_Witness ==
    \E c \in Clients :
        /\ AuthDone(c) /\ resp[c].status = 307
        /\ calls[c] = <<"process_callback", "token_post", "userinfo_get", "provision_user">>
        /\ SetNames(resp[c]) = {"user_email", "user_name"}

\* C17: while a Microsoft exchange of one request is in flight, the event
\* loop that serves it is free: another client's handler can start, and a
\* handler that waits on its own provider call can go on.
C17_LoopNotBlocked ==
    \A c, d \in Clients :
        (c # d /\ worker[c] = worker[d] /\ pc[c] = "ms_exchange") =>
            /\ (pc[d] = "idle" /\ nreq < LoopReqs) => ENABLED (CountMark(d) /\ logout(d))
            /\ pc[d] \in {"g_token", "g_userinfo", "ms_exchange"} =>
                  ENABLED (Progress(d) /\ UNCHANGED <<nreq, during>>)

\* a request of d began and was answered with c's exchange still in flight
C17_Witness ==
    \E c, d \in Clients :
        /\ c # d /\ worker[c] = worker[d]
        /\ pc[c] = "ms_exchange"
        /\ Done(d) /\ during[d]

C19_FailureChangesNothing ==
    [][\A c \in Clients :
          ( /\ req'[c].route = "auth"
            /\ resp'[c].status \in {0, 400, 401}
            /\ (pc'[c] # pc[c] \/ nreq' # nreq) ) =>
          /\ store' = store
          /\ jar' = jar]_vars

\* the callback failed and the cookie it was sent with is still in the jar
C19_Witness ==
    \E c \in Clients :
        /\ AuthDone(c) /\ resp[c].status = 401
        /\ req[c].cookie \in Nonces /\ req[c].cookie = req[c].state
        /\ CookieGet(jar[c], "oauth_state") = req[c].cookie
====
